---- MODULE Spec2Model ----
(***************************************************************************)
(* Inspection / release reconciliation of pharmaSafe.                      *)
(*                                                                         *)
(* The intake form (app/(tabs)/index.tsx, InspectionForm) pushes a new     *)
(* inspection under inspections/; the release form (ReleaseFormScreen in   *)
(* unnamed/part_001) reads inspections/{id}, pushes a record under         *)
(* releases/{id} and then updates inspections/{id}.  Every await of a      *)
(* handler is a point where other handlers may run, those of the same form *)
(* too: a handler is one action per segment between two awaits, and the    *)
(* store operation a segment waits for takes effect in the step that       *)
(* resumes it.  A call of handleSubmit works on the values of the render   *)
(* in which Submit was pressed; the fields stay editable and the screen    *)
(* may be left while the call runs.                                        *)
(*                                                                         *)
(* Texts are sequences of one-character strings, so that trimming,         *)
(* parseInt, Number and String are computed and not assumed.               *)
(***************************************************************************)
EXTENDS Integers, Sequences, FiniteSets, Bags

(***************************************************************************)
(* Bounds of the model.                                                    *)
(***************************************************************************)
MaxInspections == 1   \* inspections the intake form creates
MaxCommits == 2       \* release commits that read an existing inspection

Ops == {"op1", "op2"}  \* operators, each with one device showing the release form
NoOp == "none"         \* the operator of no call
Runs == 1..MaxCommits  \* the calls of the release form's handleSubmit under way at once
Ids == 1..MaxInspections
NoId == 0              \* the route parameter id is missing ('')
LegacyId == MaxInspections + 1  \* a key the intake form of this version did not push
GoneId == MaxInspections + 2    \* a key under which nothing is stored
Keys == Ids \cup {LegacyId, GoneId}  \* the keys under inspections/ and releases/

(***************************************************************************)
(* Texts.                                                                  *)
(***************************************************************************)
Digits == {"0", "1", "2", "3", "4", "5", "6", "7", "8", "9"}

DigitVal(c) ==
  CASE c = "0" -> 0 [] c = "1" -> 1 [] c = "2" -> 2 [] c = "3" -> 3
    [] c = "4" -> 4 [] c = "5" -> 5 [] c = "6" -> 6 [] c = "7" -> 7
    [] c = "8" -> 8 [] c = "9" -> 9

DigitChar(d) ==
  CASE d = 0 -> "0" [] d = 1 -> "1" [] d = 2 -> "2" [] d = 3 -> "3"
    [] d = 4 -> "4" [] d = 5 -> "5" [] d = 6 -> "6" [] d = 7 -> "7"
    [] d = 8 -> "8" [] d = 9 -> "9"

IsSpace(c) == c = " "

RECURSIVE TrimStart(_)
TrimStart(s) ==
  IF s # <<>> /\ IsSpace(Head(s)) THEN TrimStart(Tail(s)) ELSE s

RECURSIVE TrimEnd(_)
TrimEnd(s) ==
  IF s # <<>> /\ IsSpace(s[Len(s)]) THEN TrimEnd(SubSeq(s, 1, Len(s) - 1)) ELSE s

\* String.prototype.trim
Trim(s) == TrimEnd(TrimStart(s))

\* /^\d+$/.test(s)
AllDigits(s) == s # <<>> /\ \A i \in 1..Len(s) : s[i] \in Digits

\* t.replace(/[^\d]/g, '')
StripNonDigits(t) == SelectSeq(t, LAMBDA c : c \in Digits)

RECURSIVE DigitsValue(_)
DigitsValue(s) ==
  IF s = <<>> THEN 0 ELSE 10 * DigitsValue(SubSeq(s, 1, Len(s) - 1)) + DigitVal(s[Len(s)])

RECURSIVE DigitPrefix(_)
DigitPrefix(s) ==
  IF s # <<>> /\ Head(s) \in Digits THEN <<Head(s)>> \o DigitPrefix(Tail(s)) ELSE <<>>

\* a JavaScript number: NaN, or the integer v
NaN == [nan |-> TRUE, v |-> 0]
Num(n) == [nan |-> FALSE, v |-> n]

\* parseInt(s, 10): leading white space, an optional sign, the longest run of digits
ParseInt(s) ==
  LET t == TrimStart(s)
      neg == t # <<>> /\ Head(t) = "-"
      u == IF t # <<>> /\ Head(t) \in {"-", "+"} THEN Tail(t) ELSE t
      d == DigitPrefix(u)
  IN IF d = <<>> THEN NaN
     ELSE Num(IF neg THEN 0 - DigitsValue(d) ELSE DigitsValue(d))

\* Number(s) on the texts of this model: white space is trimmed, '' is 0,
\* an optionally signed run of digits is its value, anything else is NaN
ToNumber(s) ==
  LET t == Trim(s)
      neg == t # <<>> /\ Head(t) = "-"
      u == IF t # <<>> /\ Head(t) \in {"-", "+"} THEN Tail(t) ELSE t
  IN IF t = <<>> THEN Num(0)
     ELSE IF AllDigits(u) THEN Num(IF neg THEN 0 - DigitsValue(u) ELSE DigitsValue(u))
     ELSE NaN

RECURSIVE NatToString(_)
NatToString(n) ==
  IF n < 10 THEN <<DigitChar(n)>> ELSE NatToString(n \div 10) \o <<DigitChar(n % 10)>>

\* String(n) of an integer
NumberToString(n) == IF n < 0 THEN <<"-">> \o NatToString(0 - n) ELSE NatToString(n)

(***************************************************************************)
(* Stored values of boxesImpounded: a string, a number, or absent.         *)
(***************************************************************************)
StrVal(s) == [t |-> "string", s |-> s, n |-> 0]
NumVal(n) == [t |-> "number", s |-> <<>>, n |-> n]
Undefined == [t |-> "undefined", s |-> <<>>, n |-> 0]

\* parseNumber(n)
parseNumber(x) ==
  IF x.t = "number" THEN x.n
  ELSE IF x.t = "string"
       THEN (LET y == ToNumber(x.s) IN IF y.nan THEN 0 ELSE y.v)
       ELSE 0

LowerLetters == <<"a", "e", "l", "n", "o", "r", "s">>
UpperLetters == <<"A", "E", "L", "N", "O", "R", "S">>

UpperChar(c) ==
  IF \E i \in 1..Len(LowerLetters) : LowerLetters[i] = c
  THEN UpperLetters[CHOOSE i \in 1..Len(LowerLetters) : LowerLetters[i] = c]
  ELSE c

LowerChar(c) ==
  IF \E i \in 1..Len(UpperLetters) : UpperLetters[i] = c
  THEN LowerLetters[CHOOSE i \in 1..Len(UpperLetters) : UpperLetters[i] = c]
  ELSE c

\* String.prototype.toUpperCase / toLowerCase
ToUpperCase(s) == [i \in 1..Len(s) |-> UpperChar(s[i])]
ToLowerCase(s) == [i \in 1..Len(s) |-> LowerChar(s[i])]

(***************************************************************************)
(* Inputs the operators type.                                              *)
(***************************************************************************)
\* texts typed into the intake form's "boxes impounded" field
IntakeBoxesTexts ==
  { <<>>, <<" ">>, <<"a">>, <<"-", "1">>, <<"0">>, <<" ", "1", "0">> }

\* texts typed into the intake form's serial number field
SerialText == <<"s", "n">>
SerialTexts == { <<>>, <<" ">>, SerialText }

\* the text typed into the intake form's drug shop name field
DrugshopText == <<"d", "s">>

\* texts typed into the release form's "boxes released" field
ReleaseBoxesTexts ==
  { <<>>, <<"0">>, <<"6">>, <<"a", "6">>, <<"1", "0">> }

\* texts typed into the release form's confirmation field
ReleaseText == <<" ", "R", "e", "l", "e", "a", "s", "e">>
ConfirmTexts == { <<>>, <<" ">>, <<"n", "o">>, ReleaseText, <<"S", "N">> }

(***************************************************************************)
(* The store's nodes and the forms' dialogs.                               *)
(***************************************************************************)
\* inspections/{id} when nothing is stored there (snap.exists() is false)
NoInspection ==
  [exists |-> FALSE, boxesImpounded |-> Undefined, status |-> "",
   serialNumber |-> <<>>, drugshopName |-> <<>>, lastReleaseCount |-> 0,
   smsAttempted |-> FALSE, smsSuccess |-> FALSE]

\* no dialog is shown
NoAlert ==
  [title |-> "", requested |-> 0, available |-> 0, status |-> "", sms |-> ""]

Alert(title) == [NoAlert EXCEPT !.title = title]

\* what a call of the release form's handleSubmit closed over when Submit was
\* pressed, for no call
NoClosure == [inspectionId |-> NoId, boxesReleased |-> <<>>]

\* what a call of the intake form's handleSubmit closed over, for no call
NoIntakeClosure == [boxesImpounded |-> <<>>, serialNumber |-> <<>>, sendSms |-> FALSE]

VARIABLES
  inspections,    \* store: inspections/{id}
  releases,       \* store: releases/{id}, the pushed records in push order
  original,       \* history: the quantity inspections/{id} was created with
  log,            \* history: the finished release commits on inspections/{id}, as a bag
                  \* of [requested, outcome]
  mounted,        \* release form: the screen is mounted for the operator
  inspectionId,   \* release form: the route parameter id
  boxesReleased,  \* release form: formData.boxesReleased
  ack1, ack2,     \* release form: the two acknowledgements
  confirmText,    \* release form: the typed confirmation
  inspLoading,    \* release form: the mount-time load is pending
  insp,           \* release form: the inspection loaded at mount
  loading,        \* release form: a submit is running
  errors,         \* release form: the fields validateForm rejected
  alert,          \* the dialog Alert.alert shows to the operator
  pc,             \* handleSubmit call: idle, or the call it awaits: get, push, update, sms
  owner,          \* handleSubmit call: the operator who pressed Submit
  attached,       \* handleSubmit call: the screen it was started from is still mounted
  closure,        \* handleSubmit call: the inspectionId and formData.boxesReleased of the
                  \* render in which Submit was pressed
  current,        \* handleSubmit call: its fresh read
  intakePc,       \* intake form: form, or the call handleSubmit awaits: push, sms
  intakeBoxes,    \* intake form: formData.boxesImpounded
  intakeClosure   \* intake form: the formData of the render in which Submit was pressed

storeVars == <<inspections, releases>>
historyVars == <<original, log>>
gateVars == <<ack1, ack2, confirmText>>
screenVars == <<mounted, inspectionId, boxesReleased, gateVars, inspLoading, insp,
                loading, errors, alert>>
runVars == <<pc, owner, attached, closure, current>>
formVars == <<screenVars, runVars>>
intakeVars == <<intakePc, intakeBoxes, intakeClosure>>
vars == <<storeVars, historyVars, formVars, intakeVars>>

Init ==
  /\ inspections = [i \in Keys |-> NoInspection]
  /\ releases = [i \in Keys |-> <<>>]
  /\ original = [i \in Keys |-> 0]
  /\ log = [i \in Keys |-> EmptyBag]
  /\ mounted = [o \in Ops |-> FALSE]
  /\ inspectionId = [o \in Ops |-> NoId]
  /\ boxesReleased = [o \in Ops |-> <<>>]
  /\ ack1 = [o \in Ops |-> FALSE]
  /\ ack2 = [o \in Ops |-> FALSE]
  /\ confirmText = [o \in Ops |-> <<>>]
  /\ inspLoading = [o \in Ops |-> FALSE]
  /\ insp = [o \in Ops |-> NoInspection]
  /\ loading = [o \in Ops |-> FALSE]
  /\ errors = [o \in Ops |-> {}]
  /\ alert = [o \in Ops |-> NoAlert]
  /\ pc = [r \in Runs |-> "idle"]
  /\ owner = [r \in Runs |-> NoOp]
  /\ attached = [r \in Runs |-> FALSE]
  /\ closure = [r \in Runs |-> NoClosure]
  /\ current = [r \in Runs |-> NoInspection]
  /\ intakePc = "form"
  /\ intakeBoxes = <<>>
  /\ intakeClosure = NoIntakeClosure

(***************************************************************************)
(* Intake form: InspectionForm of app/(tabs)/index.tsx.                    *)
(***************************************************************************)
\* Number(formData.boxesImpounded || '0') || 0
IntakeBoxesNum(boxes) ==
  LET y == ToNumber(IF boxes = <<>> THEN <<"0">> ELSE boxes)
  IN IF y.nan THEN 0 ELSE y.v

\* IntakeBoxesNumeric with a sign let through
IntakeBoxesNumericSigned(boxes) ==
  LET t == Trim(boxes)
  IN AllDigits(t) \/ (t # <<>> /\ Head(t) = "-" /\ AllDigits(Tail(t)))

\* IntakeBoxesNumeric with the test left out
IntakeBoxesNumericAny(boxes) == TRUE

\* the "Boxes numeric" test of validateForm
IntakeBoxesNumeric(boxes) == AllDigits(Trim(boxes))

\* validateForm: the fields it rejects.  otherOk stands for drugshopName,
\* impoundedBy, location and clientTelephone being acceptable, phonesOk for
\* validatePhones(drugshopContactPhones) returning null.
IntakeFormErrors(boxes, serial, otherOk, sendSms, phonesOk) ==
  (IF serial = <<>> THEN {"serialNumber"} ELSE {})
  \cup (IF boxes = <<>> THEN {"boxesImpounded"} ELSE {})
  \cup (IF ~otherOk THEN {"other"} ELSE {})
  \cup (IF boxes # <<>> /\ ~IntakeBoxesNumeric(boxes) THEN {"boxesImpounded"} ELSE {})
  \cup (IF sendSms /\ IntakeBoxesNum(boxes) > 0 /\ ~phonesOk
        THEN {"drugshopContactPhones"} ELSE {})

\* the data object handleSubmit pushes
IntakeData(boxes, serial) ==
  [exists |-> TRUE, boxesImpounded |-> StrVal(Trim(boxes)), status |-> "submitted",
   serialNumber |-> Trim(serial), drugshopName |-> Trim(DrugshopText),
   lastReleaseCount |-> 0, smsAttempted |-> FALSE, smsSuccess |-> FALSE]

\* the key push() gives the new inspection
NewId == Cardinality({i \in Ids : inspections[i].exists}) + 1

\* isSubmitting: true from setIsSubmitting(true) to the finally block
isSubmitting == intakePc # "form"

\* onChangeText of the "boxes impounded" field, through handleChange; the field is
\* editable while a submission is under way
IntakeType(boxes) ==
  /\ intakeBoxes' = boxes
  /\ UNCHANGED <<intakePc, intakeClosure, storeVars, historyVars, formVars>>

\* handleSubmit up to its first await: validateForm, setIsSubmitting(true), the data
\* object built from the formData of this render, push() issued.  The Submit button
\* is disabled while isSubmitting.  The dialogs and field errors of this form are
\* not part of the state.
IntakeSubmit(serial, otherOk, sendSms, phonesOk) ==
  /\ ~isSubmitting
  /\ NewId \in Ids
  /\ IF IntakeFormErrors(intakeBoxes, serial, otherOk, sendSms, phonesOk) # {}
     THEN UNCHANGED <<intakePc, intakeClosure>>
     ELSE /\ intakePc' = "push"
          /\ intakeClosure' = [boxesImpounded |-> intakeBoxes, serialNumber |-> serial,
                               sendSms |-> sendSms]
  /\ UNCHANGED <<intakeBoxes, storeVars, historyVars, formVars>>

\* formData.sendSms && boxesNum > 0 && formData.drugshopContactPhones.trim(), on the
\* formData handleSubmit closed over: validateForm let it pass, so the phones are
\* not empty when the first two hold
IntakeSmsDue ==
  intakeClosure.sendSms /\ IntakeBoxesNum(intakeClosure.boxesImpounded) > 0

\* handleSubmit from the resolved push() to its SMS, or to resetForm and finally
\* when no SMS is due: the inspection is stored as it was closed over
IntakePushDone ==
  /\ intakePc = "push"
  /\ inspections' = [inspections EXCEPT ![NewId] =
       IntakeData(intakeClosure.boxesImpounded, intakeClosure.serialNumber)]
  /\ original' = [original EXCEPT ![NewId] =
       parseNumber(StrVal(Trim(intakeClosure.boxesImpounded)))]
  /\ IF IntakeSmsDue
     THEN /\ intakePc' = "sms"
          /\ UNCHANGED <<intakeBoxes, intakeClosure>>
     ELSE /\ intakePc' = "form"
          /\ intakeBoxes' = <<>>
          /\ intakeClosure' = NoIntakeClosure
  /\ UNCHANGED <<releases, log, formVars>>

\* push() throws: the catch block ('Submission failed') and finally; the form keeps
\* its fields
IntakePushFail ==
  /\ intakePc = "push"
  /\ intakePc' = "form"
  /\ intakeClosure' = NoIntakeClosure
  /\ UNCHANGED <<intakeBoxes, storeVars, historyVars, formVars>>

\* handleSubmit after sendImpoundSms resolved (ok) or threw; resetForm; finally
IntakeSmsDone(ok) ==
  /\ intakePc = "sms"
  /\ intakePc' = "form"
  /\ intakeBoxes' = <<>>
  /\ intakeClosure' = NoIntakeClosure
  /\ UNCHANGED <<storeVars, historyVars, formVars>>

(***************************************************************************)
(* Release form: ReleaseFormScreen of unnamed/part_001.                    *)
(***************************************************************************)
Max(a, b) == IF a >= b THEN a ELSE b

\* ReleaseFormErrors with the quantity test boxes < 0
ReleaseFormErrorsZeroAllowed(boxes, id) ==
  (IF boxes = <<>> \/ ParseInt(boxes).nan \/ ParseInt(boxes).v < 0
        THEN {"boxesReleased"} ELSE {})
  \cup (IF id = NoId THEN {"inspectionId"} ELSE {})

\* validateForm: the fields it rejects, the date, clientName, telephone and
\* releasedBy fields being filled in
ReleaseFormErrors(boxes, id) ==
  (IF boxes = <<>> \/ ParseInt(boxes).nan \/ ParseInt(boxes).v <= 0
        THEN {"boxesReleased"} ELSE {})
  \cup (IF id = NoId THEN {"inspectionId"} ELSE {})

\* canConfirm with any serial number, an empty one too, compared with the text
canConfirmEmptySerial(o) ==
  LET typed == Trim(confirmText[o])
      serial == Trim(insp[o].serialNumber)
      okTyped == \/ ToUpperCase(typed) = <<"R", "E", "L", "E", "A", "S", "E">>
                 \/ ToLowerCase(typed) = ToLowerCase(serial)
  IN ack1[o] /\ ack2[o] /\ okTyped

\* canConfirm with the second acknowledgement forgotten
canConfirmOneAck(o) ==
  LET typed == Trim(confirmText[o])
      serial == Trim(insp[o].serialNumber)
      okTyped == \/ ToUpperCase(typed) = <<"R", "E", "L", "E", "A", "S", "E">>
                 \/ (serial # <<>> /\ ToLowerCase(typed) = ToLowerCase(serial))
  IN ack1[o] /\ okTyped

\* canConfirm
canConfirm(o) ==
  LET typed == Trim(confirmText[o])
      serial == Trim(insp[o].serialNumber)
      okTyped == \/ ToUpperCase(typed) = <<"R", "E", "L", "E", "A", "S", "E">>
                 \/ (serial # <<>> /\ ToLowerCase(typed) = ToLowerCase(serial))
  IN ack1[o] /\ ack2[o] /\ okTyped

\* parseInt(formData.boxesReleased, 10) of handleSubmit, on the formData of the
\* render in which Submit was pressed
releaseCount(r) == ParseInt(closure[r].boxesReleased).v

\* OverRelease with the test left out
OverReleaseUnchecked(count, currentBoxes) == FALSE

\* the over-release test of handleSubmit
OverRelease(count, currentBoxes) == count > currentBoxes

\* Remaining with the operands of the subtraction exchanged
RemainingSwapped(currentBoxes, count) == Max(0, count - currentBoxes)

\* Remaining with one box too many taken off
RemainingOffByOne(currentBoxes, count) == Max(0, currentBoxes - count - 1)

\* remaining
Remaining(currentBoxes, count) == Max(0, currentBoxes - count)

\* NextStatus comparing the number with the text '0', which never matches
NextStatusTextCompare(remaining) == "Pending Review"

\* nextStatus
NextStatus(remaining) == IF remaining = 0 THEN "Completed" ELSE "Pending Review"

\* NextBoxes writing a text whatever was read
NextBoxesAlwaysText(read, remaining) == StrVal(NumberToString(remaining))

\* isStringType ? String(remaining) : remaining
NextBoxes(read, remaining) ==
  IF read.t = "string" THEN StrVal(NumberToString(remaining)) ELSE NumVal(remaining)

\* the object pushed under releases/{inspectionId}
ReleasePayload(id, count) == [inspectionId |-> id, boxesReleased |-> count]

\* the release commits on inspections/{id} that are between their read and their update
InFlight(id) ==
  {r \in Runs : pc[r] \in {"get", "push", "update"} /\ closure[r].inspectionId = id}

RECURSIVE SumOver(_, _)
SumOver(f, S) ==
  IF S = {} THEN 0 ELSE LET x == CHOOSE y \in S : TRUE IN f[x] + SumOver(f, S \ {x})

\* the release commits begun so far: the finished ones and those under way
Commits ==
  SumOver([i \in Keys |-> BagCardinality(log[i])], Keys)
  + Cardinality({r \in Runs : pc[r] \in {"get", "push", "update"}})

\* a release commit on an existing inspection ended: "ok" (updated),
\* "OverRelease" (rejected) or "failed" (a store call threw)
Logged(id, count, outcome) ==
  log' = [log EXCEPT ![id] = @ (+) SetToBag({[requested |-> count, outcome |-> outcome]})]

\* the Success dialog is in front: its only button, OK, calls router.back()
SuccessShown(o) == alert[o].title = "Success"

\* InitialAck with the acknowledgements starting affirmed
InitialAckSet == TRUE

\* useState(false) of ack1 and ack2
InitialAck == FALSE

\* the keys of Ids are the ones push() generates for the intake form: each is new
\* when it is generated, so a route can carry one only once its inspection is stored
Pushed(id) == id \in Ids => inspections[id].exists

\* the screen is mounted for the route /releaseform?id=...
Open(o, id) ==
  /\ ~mounted[o]
  /\ Pushed(id)
  /\ ~SuccessShown(o)
  /\ mounted' = [mounted EXCEPT ![o] = TRUE]
  /\ inspectionId' = [inspectionId EXCEPT ![o] = id]
  /\ boxesReleased' = [boxesReleased EXCEPT ![o] = <<>>]
  /\ ack1' = [ack1 EXCEPT ![o] = InitialAck]
  /\ ack2' = [ack2 EXCEPT ![o] = InitialAck]
  /\ confirmText' = [confirmText EXCEPT ![o] = <<>>]
  /\ inspLoading' = [inspLoading EXCEPT ![o] = (id # NoId)]
  /\ insp' = [insp EXCEPT ![o] = NoInspection]
  /\ loading' = [loading EXCEPT ![o] = FALSE]
  /\ errors' = [errors EXCEPT ![o] = {}]
  /\ alert' = [alert EXCEPT ![o] = NoAlert]
  /\ UNCHANGED <<runVars, storeVars, historyVars, intakeVars>>

\* the mount-time effect's get() resolved (ok) or threw, the screen still mounted
LoadDone(o, ok) ==
  /\ mounted[o]
  /\ inspLoading[o]
  /\ insp' = [insp EXCEPT ![o] =
       IF ok /\ inspections[inspectionId[o]].exists
       THEN inspections[inspectionId[o]] ELSE NoInspection]
  /\ inspLoading' = [inspLoading EXCEPT ![o] = FALSE]
  /\ UNCHANGED <<mounted, inspectionId, boxesReleased, gateVars, loading, errors,
                 alert, runVars, storeVars, historyVars, intakeVars>>

\* onChangeText of the "boxes released" field, through handleChange; the field is
\* editable while a submit is running
SetBoxesReleased(o, typed) ==
  /\ mounted[o]
  /\ ~SuccessShown(o)
  /\ boxesReleased' = [boxesReleased EXCEPT ![o] = StripNonDigits(typed)]
  /\ errors' = [errors EXCEPT ![o] = @ \ {"boxesReleased"}]
  /\ alert' = [alert EXCEPT ![o] = NoAlert]
  /\ UNCHANGED <<mounted, inspectionId, gateVars, inspLoading, insp, loading,
                 runVars, storeVars, historyVars, intakeVars>>

\* onPress of the first acknowledgement
ToggleAck1(o) ==
  /\ mounted[o]
  /\ ~SuccessShown(o)
  /\ ack1' = [ack1 EXCEPT ![o] = ~@]
  /\ alert' = [alert EXCEPT ![o] = NoAlert]
  /\ UNCHANGED <<mounted, inspectionId, boxesReleased, ack2, confirmText, inspLoading,
                 insp, loading, errors, runVars, storeVars, historyVars, intakeVars>>

\* onPress of the second acknowledgement
ToggleAck2(o) ==
  /\ mounted[o]
  /\ ~SuccessShown(o)
  /\ ack2' = [ack2 EXCEPT ![o] = ~@]
  /\ alert' = [alert EXCEPT ![o] = NoAlert]
  /\ UNCHANGED <<mounted, inspectionId, boxesReleased, ack1, confirmText, inspLoading,
                 insp, loading, errors, runVars, storeVars, historyVars, intakeVars>>

\* onChangeText of the confirmation field
SetConfirmText(o, t) ==
  /\ mounted[o]
  /\ ~SuccessShown(o)
  /\ confirmText' = [confirmText EXCEPT ![o] = t]
  /\ alert' = [alert EXCEPT ![o] = NoAlert]
  /\ UNCHANGED <<mounted, inspectionId, boxesReleased, ack1, ack2, inspLoading,
                 insp, loading, errors, runVars, storeVars, historyVars, intakeVars>>

\* router.back(): the header arrow at any time, Cancel, or OK on the Success
\* dialog.  The screen is unmounted and its state is gone; a handleSubmit call it
\* started goes on without it.
Back(o) ==
  /\ mounted[o] \/ SuccessShown(o)
  /\ mounted' = [mounted EXCEPT ![o] = FALSE]
  /\ inspectionId' = [inspectionId EXCEPT ![o] = NoId]
  /\ boxesReleased' = [boxesReleased EXCEPT ![o] = <<>>]
  /\ ack1' = [ack1 EXCEPT ![o] = FALSE]
  /\ ack2' = [ack2 EXCEPT ![o] = FALSE]
  /\ confirmText' = [confirmText EXCEPT ![o] = <<>>]
  /\ inspLoading' = [inspLoading EXCEPT ![o] = FALSE]
  /\ insp' = [insp EXCEPT ![o] = NoInspection]
  /\ loading' = [loading EXCEPT ![o] = FALSE]
  /\ errors' = [errors EXCEPT ![o] = {}]
  /\ alert' = [alert EXCEPT ![o] = NoAlert]
  /\ attached' = [r \in Runs |-> attached[r] /\ owner[r] # o]
  /\ UNCHANGED <<pc, owner, closure, current, storeVars, historyVars, intakeVars>>

\* the handleSubmit call a press of Submit starts
FreeRun == CHOOSE r \in Runs : pc[r] = "idle" /\ \A q \in Runs : pc[q] = "idle" => r <= q

\* handleSubmit up to its first await: validateForm, the gate, setLoading(true),
\* get() issued.  The Submit button is disabled while loading or while canConfirm
\* is false.
Submit(o) ==
  /\ mounted[o]
  /\ ~SuccessShown(o)
  /\ ~loading[o] /\ canConfirm(o)
  /\ LET errs == ReleaseFormErrors(boxesReleased[o], inspectionId[o])
     IN IF errs # {}
        THEN /\ errors' = [errors EXCEPT ![o] = errs]
             /\ alert' = [alert EXCEPT ![o] = NoAlert]
             /\ UNCHANGED <<loading, runVars>>
        ELSE IF ~canConfirm(o)
        THEN /\ errors' = [errors EXCEPT ![o] = {}]
             /\ alert' = [alert EXCEPT ![o] = Alert("Confirmation required")]
             /\ UNCHANGED <<loading, runVars>>
        ELSE /\ Commits < MaxCommits
             /\ errors' = [errors EXCEPT ![o] = {}]
             /\ alert' = [alert EXCEPT ![o] = NoAlert]
             /\ loading' = [loading EXCEPT ![o] = TRUE]
             /\ pc' = [pc EXCEPT ![FreeRun] = "get"]
             /\ owner' = [owner EXCEPT ![FreeRun] = o]
             /\ attached' = [attached EXCEPT ![FreeRun] = TRUE]
             /\ closure' = [closure EXCEPT ![FreeRun] =
                  [inspectionId |-> inspectionId[o], boxesReleased |-> boxesReleased[o]]]
             /\ UNCHANGED current
  /\ UNCHANGED <<mounted, inspectionId, boxesReleased, gateVars, inspLoading, insp,
                 storeVars, historyVars, intakeVars>>

\* handleSubmit returns: setLoading(false) acts on the screen the call was started
\* from, if it is still mounted
Return(r) ==
  /\ pc' = [pc EXCEPT ![r] = "idle"]
  /\ owner' = [owner EXCEPT ![r] = NoOp]
  /\ attached' = [attached EXCEPT ![r] = FALSE]
  /\ closure' = [closure EXCEPT ![r] = NoClosure]
  /\ current' = [current EXCEPT ![r] = NoInspection]
  /\ loading' = IF attached[r] THEN [loading EXCEPT ![owner[r]] = FALSE] ELSE loading

\* NotFound with the test left out
NotFoundIgnored(snap) == FALSE

\* !inspSnap.exists()
NotFound(snap) == ~snap.exists

\* FreshSnapshot reusing the inspection loaded when the form was mounted
MountSnapshot(r) == insp[owner[r]]

\* inspSnap: the result of handleSubmit's own get(inspRef)
FreshSnapshot(r) == inspections[closure[r].inspectionId]

\* handleSubmit from the fresh get() to the push: not found, over-release, or go on
GetDone(r) ==
  /\ pc[r] = "get"
  /\ LET id == closure[r].inspectionId
         snap == FreshSnapshot(r)
         currentBoxes == parseNumber(snap.boxesImpounded)
     IN IF NotFound(snap)
        THEN /\ alert' = [alert EXCEPT ![owner[r]] = Alert("Not found")]
             /\ Return(r)
             /\ UNCHANGED log
        ELSE IF OverRelease(releaseCount(r), currentBoxes)
        THEN /\ alert' = [alert EXCEPT ![owner[r]] =
                  [Alert("Invalid quantity") EXCEPT !.requested = releaseCount(r),
                                                    !.available = currentBoxes]]
             /\ Return(r)
             /\ Logged(id, releaseCount(r), "OverRelease")
        ELSE /\ current' = [current EXCEPT ![r] = snap]
             /\ pc' = [pc EXCEPT ![r] = "push"]
             /\ UNCHANGED <<alert, loading, owner, attached, closure, log>>
  /\ UNCHANGED <<mounted, inspectionId, boxesReleased, gateVars, inspLoading, insp,
                 errors, storeVars, original, intakeVars>>

\* the times handleSubmit issues a store call before its catch block reports the
\* failure: each of get, push and update is awaited once, in no loop
StoreAttempts(r) == 1

\* handleSubmit when a store call throws: the catch block and finally
Failed(r) ==
  /\ alert' = [alert EXCEPT ![owner[r]] = Alert("Error")]
  /\ Return(r)
  /\ Logged(closure[r].inspectionId, releaseCount(r), "failed")
  /\ UNCHANGED <<mounted, inspectionId, boxesReleased, gateVars, inspLoading, insp,
                 errors, storeVars, original, intakeVars>>

\* the fresh get() throws
GetFail(r) == pc[r] = "get" /\ Failed(r)

\* PushDone with the push not awaited: the update is issued before the record is
\* stored
PushDoneNotAwaited(r) ==
  /\ pc[r] = "push"
  /\ pc' = [pc EXCEPT ![r] = "update"]
  /\ UNCHANGED <<storeVars, historyVars, screenVars, owner, attached, closure,
                 current, intakeVars>>

\* PushDone with set() in the place of push(): the record replaces those stored
PushDoneOverwriting(r) ==
  /\ pc[r] = "push"
  /\ releases' = [releases EXCEPT ![closure[r].inspectionId] =
       <<ReleasePayload(closure[r].inspectionId, releaseCount(r))>>]
  /\ pc' = [pc EXCEPT ![r] = "update"]
  /\ UNCHANGED <<inspections, historyVars, screenVars, owner, attached, closure,
                 current, intakeVars>>

\* PushDone with the record pushed under one key for all inspections
PushDoneSharedKey(r) ==
  /\ pc[r] = "push"
  /\ releases' = [releases EXCEPT ![1] =
       Append(@, ReleasePayload(closure[r].inspectionId, releaseCount(r)))]
  /\ pc' = [pc EXCEPT ![r] = "update"]
  /\ UNCHANGED <<inspections, historyVars, screenVars, owner, attached, closure,
                 current, intakeVars>>

\* the push of the release record is applied; handleSubmit goes on to the update
PushDone(r) ==
  /\ pc[r] = "push"
  /\ releases' = [releases EXCEPT ![closure[r].inspectionId] =
       Append(@, ReleasePayload(closure[r].inspectionId, releaseCount(r)))]
  /\ pc' = [pc EXCEPT ![r] = "update"]
  /\ UNCHANGED <<inspections, historyVars, screenVars, owner, attached, closure,
                 current, intakeVars>>

\* the push of the release record throws
PushFail(r) == pc[r] = "push" /\ Failed(r)

\* the updates of boxesImpounded applied to inspections/{id}
Decrements(id) ==
  LET oks == {e \in BagToSet(log[id]) : e.outcome = "ok"}
  IN BagCardinality([e \in oks |-> log[id][e]])

\* the values handleSubmit computed from its fresh read
currentBoxesOf(r) == parseNumber(current[r].boxesImpounded)
remainingOf(r) == Remaining(currentBoxesOf(r), releaseCount(r))

\* UpdateDone with set() in the place of update(): the node becomes the object
\* written
UpdateDoneReplacing(r) ==
  /\ pc[r] = "update"
  /\ inspections' = [inspections EXCEPT ![closure[r].inspectionId] =
       [NoInspection EXCEPT !.exists = TRUE,
                            !.boxesImpounded = NextBoxes(current[r].boxesImpounded, remainingOf(r)),
                            !.status = NextStatus(remainingOf(r)),
                            !.lastReleaseCount = releaseCount(r)]]
  /\ Logged(closure[r].inspectionId, releaseCount(r), "ok")
  /\ pc' = [pc EXCEPT ![r] = "sms"]
  /\ UNCHANGED <<releases, original, screenVars, owner, attached, closure, current,
                 intakeVars>>

\* the update of the inspection is applied; handleSubmit goes on to the SMS
UpdateDone(r) ==
  /\ pc[r] = "update"
  /\ inspections' = [inspections EXCEPT ![closure[r].inspectionId] =
       [@ EXCEPT !.boxesImpounded = NextBoxes(current[r].boxesImpounded, remainingOf(r)),
                 !.status = NextStatus(remainingOf(r)),
                 !.lastReleaseCount = releaseCount(r)]]
  /\ Logged(closure[r].inspectionId, releaseCount(r), "ok")
  /\ pc' = [pc EXCEPT ![r] = "sms"]
  /\ UNCHANGED <<releases, original, screenVars, owner, attached, closure, current,
                 intakeVars>>

\* the update of the inspection throws
UpdateFail(r) == pc[r] = "update" /\ Failed(r)

\* SmsDone undoing the commit when the SMS is not delivered
SmsDoneRollingBack(r, ok) ==
  /\ pc[r] = "sms"
  /\ alert' = [alert EXCEPT ![owner[r]] =
       [Alert("Success") EXCEPT !.status = NextStatus(remainingOf(r)),
                                !.sms = IF ok THEN "sent" ELSE "failed"]]
  /\ Return(r)
  /\ inspections' = IF ok THEN inspections
                    ELSE [inspections EXCEPT ![closure[r].inspectionId] = current[r]]
  /\ UNCHANGED <<mounted, inspectionId, boxesReleased, gateVars, inspLoading, insp,
                 errors, releases, historyVars, intakeVars>>

\* SmsDone reporting an undelivered SMS as a failed submission
SmsDoneSurfacingFailure(r, ok) ==
  /\ pc[r] = "sms"
  /\ alert' = [alert EXCEPT ![owner[r]] =
       IF ok THEN [Alert("Success") EXCEPT !.status = NextStatus(remainingOf(r)),
                                           !.sms = "sent"]
       ELSE Alert("Error")]
  /\ Return(r)
  /\ UNCHANGED <<mounted, inspectionId, boxesReleased, gateVars, inspLoading, insp,
                 errors, storeVars, historyVars, intakeVars>>

\* sendReleaseSms resolved (ok) or threw; the Success dialog; finally
SmsDone(r, ok) ==
  /\ pc[r] = "sms"
  /\ alert' = [alert EXCEPT ![owner[r]] =
       [Alert("Success") EXCEPT !.status = NextStatus(remainingOf(r)),
                                !.sms = IF ok THEN "sent" ELSE "failed"]]
  /\ Return(r)
  /\ UNCHANGED <<mounted, inspectionId, boxesReleased, gateVars, inspLoading, insp,
                 errors, storeVars, historyVars, intakeVars>>

(***************************************************************************)
(* The operators fill the release form in one order: the acknowledgements  *)
(* once the inspection is loaded, then the confirmation text, then the     *)
(* quantity, which they may retype, also while a submit is running; they   *)
(* may leave the screen at any time.  The inspector types the quantity of  *)
(* the intake form while no submission is under way and an inspection is   *)
(* still to be created.  (SpecGate and SpecSolo have the form opened       *)
(* again while a submit started from it still runs.)                       *)
(***************************************************************************)
FillAck1(o) == ~inspLoading[o] /\ ~ack1[o] /\ ToggleAck1(o)

FillAck2(o) == ack1[o] /\ ~ack2[o] /\ ToggleAck2(o)

FillConfirmText(o, t) == ack2[o] /\ confirmText[o] = <<>> /\ t # <<>> /\ SetConfirmText(o, t)

FillBoxesReleased(o, t) == confirmText[o] # <<>> /\ SetBoxesReleased(o, t)

IntakeFill(boxes) == ~isSubmitting /\ NewId \in Ids /\ IntakeType(boxes)

\* an operator who left the screen during a submit opens it again once that submit
\* has returned
OpenIdle(o, id) == (\A r \in Runs : owner[r] # o) /\ Open(o, id)

Next ==
  \/ \E b \in IntakeBoxesTexts : IntakeFill(b)
  \/ \E s \in {<<>>, SerialText}, k \in BOOLEAN, m \in BOOLEAN, h \in BOOLEAN :
       IntakeSubmit(s, k, m, h)
  \/ IntakePushDone
  \/ \E ok \in BOOLEAN : IntakeSmsDone(ok)
  \/ \E o \in Ops, id \in Ids \cup {NoId, GoneId} : OpenIdle(o, id)
  \/ \E o \in Ops, ok \in BOOLEAN : LoadDone(o, ok)
  \/ \E o \in Ops : FillAck1(o)
  \/ \E o \in Ops : FillAck2(o)
  \/ \E o \in Ops : FillConfirmText(o, ReleaseText)
  \/ \E o \in Ops, t \in ReleaseBoxesTexts : FillBoxesReleased(o, t)
  \/ \E o \in Ops : Back(o)
  \/ \E o \in Ops : Submit(o)
  \/ \E r \in Runs : GetDone(r)
  \/ \E r \in Runs : PushDone(r)
  \/ \E r \in Runs : UpdateDone(r)
  \/ \E r \in Runs, ok \in BOOLEAN : SmsDone(r, ok)

Spec == Init /\ [][Next]_vars

\* store calls that may throw, on an inspection of 10 boxes from which the operators
\* release 6 or 10
NextFault ==
  \/ IntakeFill(<<" ", "1", "0">>)
  \/ \E m \in BOOLEAN : IntakeSubmit(SerialText, TRUE, m, TRUE)
  \/ IntakePushDone
  \/ IntakePushFail
  \/ \E ok \in BOOLEAN : IntakeSmsDone(ok)
  \/ \E o \in Ops, id \in Ids : OpenIdle(o, id)
  \/ \E o \in Ops, ok \in BOOLEAN : LoadDone(o, ok)
  \/ \E o \in Ops : FillAck1(o)
  \/ \E o \in Ops : FillAck2(o)
  \/ \E o \in Ops : FillConfirmText(o, ReleaseText)
  \/ \E o \in Ops, t \in {<<"6">>, <<"1", "0">>} : FillBoxesReleased(o, t)
  \/ \E o \in Ops : Back(o)
  \/ \E o \in Ops : Submit(o)
  \/ \E r \in Runs : GetDone(r)
  \/ \E r \in Runs : GetFail(r)
  \/ \E r \in Runs : PushDone(r)
  \/ \E r \in Runs : PushFail(r)
  \/ \E r \in Runs : UpdateDone(r)
  \/ \E r \in Runs : UpdateFail(r)
  \/ \E r \in Runs, ok \in BOOLEAN : SmsDone(r, ok)

SpecFault == Init /\ [][NextFault]_vars

(***************************************************************************)
(* One operator's form with the confirmation block edited freely: the      *)
(* acknowledgements toggled in any order and any number of times, the      *)
(* confirmation retyped, before and during a submit, on inspections with   *)
(* and without a serial number.                                            *)
(***************************************************************************)
GateOps == {"op1"}

NextGate ==
  \/ IntakeFill(<<" ", "1", "0">>)
  \/ \E s \in SerialTexts : IntakeSubmit(s, TRUE, FALSE, TRUE)
  \/ IntakePushDone
  \/ \E o \in GateOps, id \in Ids \cup {NoId} : Open(o, id)
  \/ \E o \in GateOps, ok \in BOOLEAN : LoadDone(o, ok)
  \/ \E o \in GateOps : ToggleAck1(o)
  \/ \E o \in GateOps : ToggleAck2(o)
  \/ \E o \in GateOps, t \in ConfirmTexts : SetConfirmText(o, t)
  \/ \E o \in GateOps, t \in ReleaseBoxesTexts : SetBoxesReleased(o, t)
  \/ \E o \in GateOps : Back(o)
  \/ \E o \in GateOps : Submit(o)
  \/ \E r \in Runs : GetDone(r)
  \/ \E r \in Runs : PushDone(r)
  \/ \E r \in Runs : UpdateDone(r)
  \/ \E r \in Runs, ok \in BOOLEAN : SmsDone(r, ok)

SpecGate == Init /\ [][NextGate]_vars

(***************************************************************************)
(* A store that already holds an inspection whose boxesImpounded is a      *)
(* number (the type Inspection allows number | string, and parseNumber and *)
(* isStringType tell the two apart), beside the one the intake form        *)
(* creates with a text.  The operators release from either.                *)
(***************************************************************************)
LegacyInspection ==
  [exists |-> TRUE, boxesImpounded |-> NumVal(10), status |-> "submitted",
   serialNumber |-> SerialText, drugshopName |-> DrugshopText, lastReleaseCount |-> 0,
   smsAttempted |-> FALSE, smsSuccess |-> FALSE]

InitLegacy ==
  /\ inspections = [i \in Keys |-> IF i = LegacyId THEN LegacyInspection ELSE NoInspection]
  /\ releases = [i \in Keys |-> <<>>]
  /\ original = [i \in Keys |-> IF i = LegacyId THEN 10 ELSE 0]
  /\ log = [i \in Keys |-> EmptyBag]
  /\ mounted = [o \in Ops |-> FALSE]
  /\ inspectionId = [o \in Ops |-> NoId]
  /\ boxesReleased = [o \in Ops |-> <<>>]
  /\ ack1 = [o \in Ops |-> FALSE]
  /\ ack2 = [o \in Ops |-> FALSE]
  /\ confirmText = [o \in Ops |-> <<>>]
  /\ inspLoading = [o \in Ops |-> FALSE]
  /\ insp = [o \in Ops |-> NoInspection]
  /\ loading = [o \in Ops |-> FALSE]
  /\ errors = [o \in Ops |-> {}]
  /\ alert = [o \in Ops |-> NoAlert]
  /\ pc = [r \in Runs |-> "idle"]
  /\ owner = [r \in Runs |-> NoOp]
  /\ attached = [r \in Runs |-> FALSE]
  /\ closure = [r \in Runs |-> NoClosure]
  /\ current = [r \in Runs |-> NoInspection]
  /\ intakePc = "form"
  /\ intakeBoxes = <<>>
  /\ intakeClosure = NoIntakeClosure

NextLegacy ==
  \/ IntakeFill(<<" ", "1", "0">>)
  \/ IntakeSubmit(SerialText, TRUE, FALSE, TRUE)
  \/ IntakePushDone
  \/ \E o \in Ops, id \in Ids \cup {LegacyId} : OpenIdle(o, id)
  \/ \E o \in Ops : LoadDone(o, TRUE)
  \/ \E o \in Ops : FillAck1(o)
  \/ \E o \in Ops : FillAck2(o)
  \/ \E o \in Ops : FillConfirmText(o, ReleaseText)
  \/ \E o \in Ops, t \in {<<"6">>, <<"1", "0">>} : FillBoxesReleased(o, t)
  \/ \E o \in Ops : Back(o)
  \/ \E o \in Ops : Submit(o)
  \/ \E r \in Runs : GetDone(r)
  \/ \E r \in Runs : PushDone(r)
  \/ \E r \in Runs : UpdateDone(r)
  \/ \E r \in Runs : SmsDone(r, TRUE)

SpecLegacy == InitLegacy /\ [][NextLegacy]_vars

(***************************************************************************)
(* Release commits that do not overlap: Submit is pressed only when no     *)
(* commit is between its read and its update.  The operators of both forms *)
(* release 4 or 6 of the 10 boxes, one after the other.                    *)
(***************************************************************************)
SubmitAlone(o) ==
  /\ \A r \in Runs : pc[r] \notin {"get", "push", "update"}
  /\ Submit(o)

NextSolo ==
  \/ IntakeFill(<<" ", "1", "0">>)
  \/ IntakeSubmit(SerialText, TRUE, FALSE, TRUE)
  \/ IntakePushDone
  \/ \E o \in Ops, id \in Ids : Open(o, id)
  \/ \E o \in Ops : LoadDone(o, TRUE)
  \/ \E o \in Ops : FillAck1(o)
  \/ \E o \in Ops : FillAck2(o)
  \/ \E o \in Ops : FillConfirmText(o, ReleaseText)
  \/ \E o \in Ops, t \in {<<"4">>, <<"6">>} : FillBoxesReleased(o, t)
  \/ \E o \in Ops : Back(o)
  \/ \E o \in Ops : SubmitAlone(o)
  \/ \E r \in Runs : GetDone(r)
  \/ \E r \in Runs : PushDone(r)
  \/ \E r \in Runs : UpdateDone(r)
  \/ \E r \in Runs : SmsDone(r, TRUE)

SpecSolo == Init /\ [][NextSolo]_vars

(***************************************************************************)
(* The intake form with its "boxes impounded" field typed at any time,     *)
(* also while a submission is under way, with a push that may throw, and   *)
(* one operator releasing from what it creates.                            *)
(***************************************************************************)
NextIntake ==
  \/ \E b \in IntakeBoxesTexts : IntakeType(b)
  \/ \E s \in SerialTexts, k \in BOOLEAN, m \in BOOLEAN, h \in BOOLEAN :
       IntakeSubmit(s, k, m, h)
  \/ IntakePushDone
  \/ IntakePushFail
  \/ \E ok \in BOOLEAN : IntakeSmsDone(ok)
  \/ \E o \in GateOps, id \in Ids : Open(o, id)
  \/ \E o \in GateOps, ok \in BOOLEAN : LoadDone(o, ok)
  \/ \E o \in GateOps : FillAck1(o)
  \/ \E o \in GateOps : FillAck2(o)
  \/ \E o \in GateOps : FillConfirmText(o, ReleaseText)
  \/ \E o \in GateOps, t \in ReleaseBoxesTexts : FillBoxesReleased(o, t)
  \/ \E o \in GateOps : Back(o)
  \/ \E o \in GateOps : Submit(o)
  \/ \E r \in Runs : GetDone(r)
  \/ \E r \in Runs : PushDone(r)
  \/ \E r \in Runs : UpdateDone(r)
  \/ \E r \in Runs, ok \in BOOLEAN : SmsDone(r, ok)

SpecIntake == Init /\ [][NextIntake]_vars

(***************************************************************************)
(* One operator releasing 6 of 10 boxes with store calls that may throw:   *)
(* after the Error dialog the form is as it was filled in, and the         *)
(* operator may submit it again.                                           *)
(***************************************************************************)
NextRetry ==
  \/ IntakeFill(<<" ", "1", "0">>)
  \/ IntakeSubmit(SerialText, TRUE, FALSE, TRUE)
  \/ IntakePushDone
  \/ \E o \in GateOps, id \in Ids : Open(o, id)
  \/ \E o \in GateOps : LoadDone(o, TRUE)
  \/ \E o \in GateOps : FillAck1(o)
  \/ \E o \in GateOps : FillAck2(o)
  \/ \E o \in GateOps : FillConfirmText(o, ReleaseText)
  \/ \E o \in GateOps : FillBoxesReleased(o, <<"6">>)
  \/ \E o \in GateOps : Back(o)
  \/ \E o \in GateOps : Submit(o)
  \/ \E r \in Runs : GetDone(r)
  \/ \E r \in Runs : GetFail(r)
  \/ \E r \in Runs : PushDone(r)
  \/ \E r \in Runs : PushFail(r)
  \/ \E r \in Runs : UpdateDone(r)
  \/ \E r \in Runs : UpdateFail(r)
  \/ \E r \in Runs, ok \in BOOLEAN : SmsDone(r, ok)

SpecRetry == Init /\ [][NextRetry]_vars

(***************************************************************************)
(* The store answers every call, and the handler then runs on; the SMS     *)
(* endpoint may stay silent, and fetch() is given no timeout or abort      *)
(* signal, so nothing is assumed of SmsDone.                               *)
(***************************************************************************)
StoreAnswers ==
  \A r \in Runs :
    /\ WF_vars(GetDone(r))
    /\ WF_vars(PushDone(r))
    /\ WF_vars(UpdateDone(r))

SpecLive == Init /\ [][NextRetry]_vars /\ StoreAnswers

(***************************************************************************)
(* Properties.                                                             *)
(***************************************************************************)
\* the quantity stored for inspections/{id}, as the release form reads it
Quantity(id) == parseNumber(inspections[id].boxesImpounded)

RECURSIVE SumReleased(_)
SumReleased(records) ==
  IF records = <<>> THEN 0 ELSE Head(records).boxesReleased + SumReleased(Tail(records))

\* the finished commits on inspections/{id} with the given outcome
Finished(id, outcome) ==
  LET es == {e \in BagToSet(log[id]) : e.outcome = outcome}
  IN BagCardinality([e \in es |-> log[id][e]])

\* the requested quantities of the finished commits on inspections/{id}, in every order
Orders(id) ==
  LET es == BagToSet(log[id])
      n == BagCardinality(log[id])
  IN {s \in [1..n -> es] : \A e \in es : Cardinality({i \in 1..n : s[i] = e}) = log[id][e]}

\* the ledger of the specification applied to the commits of `order`, one after another
RECURSIVE Serial(_, _)
Serial(start, order) ==
  IF order = <<>> THEN start
  ELSE LET req == Head(order).requested
           next == IF req > start.quantity THEN start
                   ELSE [quantity |-> start.quantity - req,
                         status |-> IF start.quantity - req = 0 THEN "Completed"
                                    ELSE "Pending Review",
                         released |-> start.released (+) SetToBag({req})]
       IN Serial(next, Tail(order))

ReleasedBag(id) ==
  LET rs == releases[id]
      vs == {rs[i].boxesReleased : i \in 1..Len(rs)}
  IN [v \in vs |-> Cardinality({i \in 1..Len(rs) : rs[i].boxesReleased = v})]

\* the inspection a running handleSubmit call works on
IdOf(r) == closure[r].inspectionId

\* a step in which the handleSubmit call r goes on from the call it awaited
Resumes(r, at) == pc[r] = at /\ pc'[r] # at

\* C1: an inspection of 10 boxes and two release commits of 6 and 6, both finished:
\* exactly one succeeded, the other was rejected as an over-release, and the stored
\* quantity is not negative.
C1_ExactlyOneOfTwoSucceeds ==
  \A id \in Ids :
    (/\ inspections[id].exists /\ original[id] = 10
     /\ InFlight(id) = {}
     /\ BagCardinality(log[id]) = 2
     /\ \A e \in BagToSet(log[id]) : e.requested = 6)
    => /\ Finished(id, "ok") = 1
       /\ Finished(id, "OverRelease") = 1
       /\ Quantity(id) >= 0

\* C2: when no commit on an inspection is under way, its stored quantity, status and
\* release records are those of the finished commits applied one after another in
\* some order.
C2_SerialOrderExists ==
  \A id \in Ids :
    (inspections[id].exists /\ InFlight(id) = {})
    => \E order \in Orders(id) :
         LET end == Serial([quantity |-> original[id], status |-> "submitted",
                            released |-> EmptyBag], order)
         IN /\ Quantity(id) = end.quantity
            /\ inspections[id].status = end.status
            /\ ReleasedBag(id) = end.released

\* C3: the release records of an inspection never sum to more than the quantity it
\* was created with.
C3_ReleasedWithinOriginal ==
  \A id \in Ids : inspections[id].exists => SumReleased(releases[id]) <= original[id]

\* C4: in every state an inspection has as many release records as updates of its
\* quantity.
C4_RecordWithEveryDecrement ==
  \A id \in Ids : Len(releases[id]) = Decrements(id)

\* C5: once a commit failed on a store call and no commit is under way, the
\* inspection has as many release records as updates of its quantity.
C5_FailureLeavesNoPartialEffect ==
  \A id \in Ids :
    (InFlight(id) = {} /\ Finished(id, "failed") > 0)
    => Len(releases[id]) = Decrements(id)

\* C6: every stored boxesImpounded is a non-negative quantity: a text of digits, or
\* a number that is not negative.
C6_QuantityNonNegative ==
  \A id \in Ids :
    inspections[id].exists
    => LET b == inspections[id].boxesImpounded
       IN \/ b.t = "string" /\ AllDigits(b.s) /\ parseNumber(b) >= 0
          \/ b.t = "number" /\ b.n >= 0

\* two commits of 6 raced on an inspection of 10 and both updated it
C6_Witness ==
  \E id \in Ids :
    /\ original[id] = 10 /\ Decrements(id) = 2
    /\ inspections[id].boxesImpounded = StrVal(<<"4">>)

\* C7 as claimed: for every stored inspection, status is Completed exactly when the
\* stored quantity is 0.
C7_CompletedIffZero ==
  \A id \in Ids :
    inspections[id].exists
    => (inspections[id].status = "Completed" <=> Quantity(id) = 0)

\* C7 as amended: an inspection no release commit has updated has the status
\* submitted, whatever its quantity; one a release commit has updated has the status
\* Completed exactly when the stored quantity is 0.
C7_CompletedIffZeroOnceReleased ==
  \A id \in Ids :
    inspections[id].exists
    => IF Decrements(id) = 0
       THEN inspections[id].status = "submitted"
       ELSE (inspections[id].status = "Completed" <=> Quantity(id) = 0)

\* a release commit brought an inspection to 0 and Completed
C7_Witness ==
  \E id \in Ids :
    /\ inspections[id].exists /\ Decrements(id) > 0
    /\ inspections[id].status = "Completed" /\ Quantity(id) = 0

\* C8: a commit whose fresh read finds a quantity >= 0 smaller than the requested one
\* stops there: the dialog reports the requested and the available quantity, the
\* commit goes on to no write, and the inspection and the release records are as
\* they were.
C8_OverReleaseRejected ==
  [][\A r \in Runs :
       (/\ Resumes(r, "get")
        /\ inspections[IdOf(r)].exists
        /\ Quantity(IdOf(r)) >= 0
        /\ releaseCount(r) > Quantity(IdOf(r)))
       => /\ pc'[r] = "idle"
          /\ attached[r] => ~loading'[owner[r]]
          /\ alert'[owner[r]].title = "Invalid quantity"
          /\ alert'[owner[r]].requested = releaseCount(r)
          /\ alert'[owner[r]].available = Quantity(IdOf(r))
          /\ inspections' = inspections
          /\ releases' = releases]_vars

\* a release of 6 was rejected with 4 available
C8_Witness ==
  \E o \in Ops :
    /\ mounted[o] /\ ~loading[o]
    /\ alert[o].title = "Invalid quantity"
    /\ alert[o].requested = 6 /\ alert[o].available = 4
    /\ Quantity(inspectionId[o]) = 4

\* C9: a commit is under way only for a quantity that is a positive integer, whatever
\* the field holds by then; a rejected quantity leaves the form with its field error
\* and no submit running; and every stored release record has boxesReleased >= 1.
C9_InvalidQuantityRejected ==
  /\ \A r \in Runs :
       pc[r] # "idle"
       => AllDigits(closure[r].boxesReleased) /\ DigitsValue(closure[r].boxesReleased) >= 1
  /\ \A o \in Ops : "boxesReleased" \in errors[o] => mounted[o] /\ ~loading[o]
  /\ \A id \in Ids : \A i \in 1..Len(releases[id]) : releases[id][i].boxesReleased >= 1

\* a release of 0 was rejected by the form while a release of another operator's
\* form is recorded
C9_Witness ==
  \E o \in Ops :
    /\ boxesReleased[o] = <<"0">> /\ "boxesReleased" \in errors[o]
    /\ mounted[o]
    /\ \E id \in Ids : Len(releases[id]) > 0

\* C10: the update of an accepted release (1 <= requested <= the quantity read) writes
\* exactly the quantity read less the requested one, with the status Completed when
\* that is 0 and Pending Review otherwise.
C10_RemainderWritten ==
  [][\A r \in Runs :
       LET read == parseNumber(current[r].boxesImpounded)
           req == releaseCount(r)
       IN (pc[r] = "update" /\ pc'[r] = "sms")
          => /\ 1 <= req /\ req <= read
             /\ parseNumber(inspections'[IdOf(r)].boxesImpounded) = read - req
             /\ inspections'[IdOf(r)].status =
                  IF read - req = 0 THEN "Completed" ELSE "Pending Review"]_vars

\* a release of 6 from 10 wrote 4 and Pending Review, the field of its form holding
\* 10 by then
C10_Witness ==
  \E r \in Runs :
    /\ pc[r] = "sms" /\ releaseCount(r) = 6
    /\ attached[r] /\ boxesReleased[owner[r]] = <<"1", "0">>
    /\ parseNumber(current[r].boxesImpounded) = 10
    /\ inspections[IdOf(r)].boxesImpounded = StrVal(<<"4">>)
    /\ inspections[IdOf(r)].status = "Pending Review"

\* C11: a commit whose fresh read finds no inspection under its id stops there: the
\* dialog says Not found, the commit goes on to no write, no release record is pushed
\* and no inspection node is created or changed.
C11_NotFoundWritesNothing ==
  [][\A r \in Runs :
       (Resumes(r, "get") /\ ~inspections[IdOf(r)].exists)
       => /\ pc'[r] = "idle"
          /\ attached[r] => ~loading'[owner[r]]
          /\ alert'[owner[r]].title = "Not found"
          /\ inspections' = inspections
          /\ releases' = releases
          /\ log' = log]_vars

\* a release of 6 was answered Not found for an id under which nothing is stored
C11_Witness ==
  \E o \in Ops :
    /\ mounted[o] /\ ~loading[o] /\ alert[o].title = "Not found"
    /\ inspectionId[o] = GoneId
    /\ ~inspections[inspectionId[o]].exists
    /\ releases[inspectionId[o]] = <<>>
    /\ boxesReleased[o] = <<"6">>

\* C12: a commit decides on the quantity stored when its own read is answered, not on
\* the one the form loaded at mount: a larger request is rejected with that stored
\* quantity as the available one, any other goes on with the stored inspection as
\* its read; and the update subtracts from that read.
C12_FreshReadDecides ==
  [][\A r \in Runs :
       /\ (Resumes(r, "get") /\ inspections[IdOf(r)].exists)
          => IF releaseCount(r) > Quantity(IdOf(r))
             THEN /\ pc'[r] = "idle"
                  /\ alert'[owner[r]].title = "Invalid quantity"
                  /\ alert'[owner[r]].available = Quantity(IdOf(r))
             ELSE /\ pc'[r] = "push"
                  /\ current'[r] = inspections[IdOf(r)]
       /\ (pc[r] = "update" /\ pc'[r] = "sms")
          => parseNumber(inspections'[IdOf(r)].boxesImpounded)
               = Max(0, parseNumber(current[r].boxesImpounded) - releaseCount(r))]_vars

\* a form that loaded 10 at mount had its release of 6 rejected with 4 available,
\* another release of 6 having been committed in between
C12_Witness ==
  \E o \in Ops :
    /\ mounted[o] /\ alert[o].title = "Invalid quantity"
    /\ parseNumber(insp[o].boxesImpounded) = 10
    /\ alert[o].requested = 6 /\ alert[o].available = 4
    /\ Decrements(inspectionId[o]) = 1

\* C13 as claimed: a commit starts (and so reads, pushes or updates) only from a form
\* where both acknowledgements are set and the typed text equals, letter case apart,
\* RELEASE or the inspection's serial number.
C13_GateBeforeStore ==
  [][\A r \in Runs :
       (pc[r] = "idle" /\ pc'[r] = "get")
       => LET o == owner'[r]
          IN /\ ack1[o] /\ ack2[o]
             /\ \/ ToUpperCase(confirmText[o]) = <<"R", "E", "L", "E", "A", "S", "E">>
                \/ ToUpperCase(confirmText[o])
                     = ToUpperCase(inspections[inspectionId[o]].serialNumber)]_vars

\* C13 as amended: the same with the white space around the typed text left out of
\* the comparison, and the serial number counting only when it is not empty.
C13_GateBeforeStoreTrimmed ==
  [][\A r \in Runs :
       (pc[r] = "idle" /\ pc'[r] = "get")
       => LET o == owner'[r]
          IN /\ ack1[o] /\ ack2[o]
             /\ \/ ToUpperCase(Trim(confirmText[o])) = <<"R", "E", "L", "E", "A", "S", "E">>
                \/ /\ inspections[inspectionId[o]].serialNumber # <<>>
                   /\ ToUpperCase(Trim(confirmText[o]))
                        = ToUpperCase(inspections[inspectionId[o]].serialNumber)]_vars

\* a commit was started with the serial number sn typed as SN
C13_Witness ==
  \E r \in Runs :
    /\ pc[r] = "get" /\ attached[r]
    /\ ack1[owner[r]] /\ ack2[owner[r]]
    /\ confirmText[owner[r]] = <<"S", "N">>
    /\ inspections[IdOf(r)].serialNumber = <<"s", "n">>

\* C14: every mount of the release form leaves both acknowledgements unset, the
\* confirmation empty and the gate unsatisfied.
C14_OpenResetsGate ==
  [][\A o \in Ops :
       (~mounted[o] /\ mounted'[o])
       => /\ ~ack1'[o] /\ ~ack2'[o]
          /\ confirmText'[o] = <<>>
          /\ ~canConfirm(o)']_vars

\* the operator who had one release accepted and one rejected has the form open
\* again, nothing affirmed
C14_Witness ==
  \E o \in GateOps :
    /\ mounted[o] /\ inspectionId[o] \in Ids
    /\ ~ack1[o] /\ ~ack2[o] /\ confirmText[o] = <<>>
    /\ Finished(inspectionId[o], "ok") = 1
    /\ Finished(inspectionId[o], "OverRelease") = 1

\* C15: the step that ends a notification attempt, delivered or not, after a release
\* commit or after an intake, leaves inspections/ and releases/ exactly as the
\* commit wrote them.
C15_NotificationLeavesStore ==
  [][/\ \A r \in Runs :
          Resumes(r, "sms") => inspections' = inspections /\ releases' = releases
     /\ (intakePc = "sms" /\ intakePc' # "sms")
          => inspections' = inspections /\ releases' = releases]_vars

\* a release of 6 from 10 is stored, 4 left and one record, its SMS undelivered
C15_Witness ==
  \E o \in Ops :
    /\ mounted[o] /\ SuccessShown(o) /\ alert[o].sms = "failed"
    /\ inspections[inspectionId[o]].boxesImpounded = StrVal(<<"4">>)
    /\ inspections[inspectionId[o]].status = "Pending Review"
    /\ Len(releases[inspectionId[o]]) = 1

\* C16: a commit whose push and update were applied ends in the Success dialog,
\* which names the status the commit set and says apart whether the SMS was sent or
\* failed; it never ends in the Error dialog, and its form stops loading.
C16_CommittedReportsSuccess ==
  [][\A r \in Runs :
       Resumes(r, "sms")
       => /\ pc'[r] = "idle"
          /\ attached[r] => ~loading'[owner[r]]
          /\ alert'[owner[r]].title = "Success"
          /\ alert'[owner[r]].status = NextStatus(remainingOf(r))
          /\ alert'[owner[r]].sms \in {"sent", "failed"}]_vars

\* a release that completed the inspection is reported as a success with the SMS
\* undelivered
C16_Witness ==
  \E o \in Ops :
    /\ mounted[o] /\ ~loading[o]
    /\ alert[o].title = "Success" /\ alert[o].status = "Completed"
    /\ alert[o].sms = "failed"
    /\ Quantity(inspectionId[o]) = 0

\* C17: when a notification attempt ends, the stored inspection says that it was
\* attempted, and says that it succeeded exactly when the SMS was sent.  (The
\* release records carry no such field.)
C17_NotificationOutcomeRecorded ==
  [][/\ \A r \in Runs :
          (pc[r] = "sms" /\ pc'[r] = "idle")
          => /\ inspections'[IdOf(r)].smsAttempted
             /\ inspections'[IdOf(r)].smsSuccess <=> (alert'[owner[r]].sms = "sent")
     /\ (intakePc = "sms" /\ intakePc' = "form")
          => inspections'[NewId - 1].smsAttempted]_vars

\* C18: a submit whose writes are committed and whose SMS is awaited comes to its
\* end, the operator told, whether or not the SMS endpoint ever answers.
C18_SubmitCompletes ==
  \A r \in Runs : (pc[r] = "sms") ~> (pc[r] # "sms")

\* C19: the update of a commit writes the remainder in the representation it read: a
\* text of digits where it read a text, a number where it read a number; so no step
\* changes the representation an inspection is stored in.
C19_RepresentationPreserved ==
  [][/\ \A r \in Runs :
          (pc[r] = "update" /\ pc'[r] = "sms")
          => LET read == current[r].boxesImpounded
                 written == inspections'[IdOf(r)].boxesImpounded
             IN /\ written.t = read.t
                /\ written.t = "string" => AllDigits(written.s)
                /\ parseNumber(written) = parseNumber(read) - releaseCount(r)
     /\ \A id \in Keys :
          inspections[id].exists
          => inspections'[id].boxesImpounded.t = inspections[id].boxesImpounded.t]_vars

\* 6 of 10 were released from the inspection stored with a number and from the one
\* stored with a text
C19_Witness ==
  /\ inspections[LegacyId].boxesImpounded = NumVal(4)
  /\ \E id \in Ids : inspections[id].boxesImpounded = StrVal(<<"4">>)

\* one finished commit on inspections/{a} and none under way: what is stored is that
\* commit applied to the quantity the inspection was created with
AloneOutcome(a) ==
  (inspections[a].exists /\ InFlight(a) = {} /\ BagCardinality(log[a]) = 1)
  => \E order \in Orders(a) :
       LET end == Serial([quantity |-> original[a], status |-> "submitted",
                          released |-> EmptyBag], order)
       IN /\ Quantity(a) = end.quantity
          /\ inspections[a].status = end.status
          /\ ReleasedBag(a) = end.released

\* C20: a step of a commit on one inspection leaves every other inspection, its
\* release records and its finished commits as they were; and an inspection with a
\* single commit ends as that commit alone leaves it, whatever ran on the others
\* meanwhile.
C20_OtherInspectionsUntouched ==
  [][/\ \A r \in Runs :
          (pc[r] # "idle" /\ pc'[r] # pc[r])
          => \A b \in Keys \ {IdOf(r)} :
               /\ inspections'[b] = inspections[b]
               /\ releases'[b] = releases[b]
               /\ log'[b] = log[b]
     /\ \A a \in Keys : AloneOutcome(a)']_vars

\* two commits of 6 ran together on two inspections: one has updated its own to 4,
\* the other, its record pushed, has yet to update its own, still 10
C20_Witness ==
  \E r \in Runs, q \in Runs :
    /\ pc[r] = "sms" /\ pc[q] = "update"
    /\ IdOf(r) # IdOf(q)
    /\ Quantity(IdOf(r)) = 4 /\ Len(releases[IdOf(r)]) = 1
    /\ Quantity(IdOf(q)) = 10 /\ Len(releases[IdOf(q)]) = 1

\* C21: with commits that do not overlap, whenever none is under way an inspection
\* has one release record for each accepted release, and its stored quantity and
\* the quantities of its release records add up to the quantity it was created
\* with.
C21_SequentialReleasesAddUp ==
  \A id \in Ids :
    (inspections[id].exists /\ InFlight(id) = {})
    => /\ Len(releases[id]) = Finished(id, "ok")
       /\ Quantity(id) + SumReleased(releases[id]) = original[id]

\* 6 and then 4 of 10 were released: two records that add up to 10, nothing left,
\* Completed
C21_Witness ==
  \E id \in Ids :
    /\ original[id] = 10 /\ InFlight(id) = {}
    /\ Len(releases[id]) = 2
    /\ releases[id][1].boxesReleased = 6 /\ releases[id][2].boxesReleased = 4
    /\ Quantity(id) = 0 /\ inspections[id].status = "Completed"

\* C22: no step removes or changes a stored release record: the records of an
\* inspection after a step are those before it, in their order, with at most new
\* ones after them.
C22_ReleaseRecordsAppendOnly ==
  [][\A id \in Keys :
       /\ Len(releases'[id]) >= Len(releases[id])
       /\ \A i \in 1..Len(releases[id]) : releases'[id][i] = releases[id][i]]_vars

\* a second record is stored after the first, and a commit after them failed
C22_Witness ==
  \E id \in Ids :
    /\ Len(releases[id]) = 2
    /\ releases[id][1].boxesReleased = 6
    /\ Finished(id, "failed") = 1

\* C23: a submission is started only with a quantity that is a text of digits (white
\* space around it apart); an inspection is created only by the push of a
\* submission, with the status submitted and with the quantity that was submitted,
\* a text of digits and so an integer >= 0, whatever the field holds by then.
C23_IntakeStoresSubmittedQuantity ==
  [][/\ (intakePc = "form" /\ intakePc' = "push")
          => /\ AllDigits(Trim(intakeBoxes))
             /\ intakeClosure'.boxesImpounded = intakeBoxes
     /\ \A id \in Ids :
          (~inspections[id].exists /\ inspections'[id].exists)
          => LET b == inspections'[id].boxesImpounded
             IN /\ intakePc = "push"
                /\ inspections'[id].status = "submitted"
                /\ b.t = "string" /\ AllDigits(b.s)
                /\ b.s = Trim(intakeClosure.boxesImpounded)
                /\ parseNumber(b) = DigitsValue(Trim(intakeClosure.boxesImpounded))
                /\ parseNumber(b) >= 0]_vars

\* the inspection submitted as ' 10' is stored as '10', submitted, while its SMS is
\* awaited and the field, retyped during the push, holds 'a'
C23_Witness ==
  /\ intakePc = "sms" /\ intakeBoxes = <<"a">>
  /\ intakeClosure.boxesImpounded = <<" ", "1", "0">>
  /\ \E id \in Ids :
       /\ inspections[id].boxesImpounded = StrVal(<<"1", "0">>)
       /\ inspections[id].status = "submitted"

\* C24: the failure of a store call is reported to the operator only after the call
\* was issued again at least once.
C24_StoreFailureRetried ==
  [][\A r \in Runs :
       (/\ pc[r] \in {"get", "push", "update"} /\ pc'[r] = "idle"
        /\ alert'[owner[r]].title = "Error")
       => StoreAttempts(r) > 1]_vars

\* C25: a release of 6 that failed on a store call and was submitted again by the
\* same operator, to its end, leaves at most one release record and at most one
\* update of the quantity.
C25_FailedReleaseAppliedOnce ==
  \A id \in Ids :
    (/\ InFlight(id) = {}
     /\ BagCardinality(log[id]) = 2
     /\ Finished(id, "failed") = 1 /\ Finished(id, "ok") = 1
     /\ \A e \in BagToSet(log[id]) : e.requested = 6)
    => /\ Len(releases[id]) <= 1
       /\ Decrements(id) <= 1

\* C26: no step removes a stored inspection or changes its serialNumber or its
\* drugshopName, and the update of a release commit changes nothing of it but
\* boxesImpounded, status and the release stamps.
C26_ReleaseKeepsDescription ==
  [][/\ \A id \in Keys :
          inspections[id].exists
          => /\ inspections'[id].exists
             /\ inspections'[id].serialNumber = inspections[id].serialNumber
             /\ inspections'[id].drugshopName = inspections[id].drugshopName
     /\ \A r \in Runs :
          (pc[r] = "update" /\ pc'[r] = "sms")
          => inspections'[IdOf(r)] =
               [inspections[IdOf(r)] EXCEPT
                  !.boxesImpounded = inspections'[IdOf(r)].boxesImpounded,
                  !.status = inspections'[IdOf(r)].status,
                  !.lastReleaseCount = inspections'[IdOf(r)].lastReleaseCount]]_vars

\* all 10 boxes of the inspection sn of the drug shop ds are released
C26_Witness ==
  \E id \in Ids :
    /\ inspections[id].exists
    /\ inspections[id].serialNumber = <<"s", "n">>
    /\ inspections[id].drugshopName = <<"d", "s">>
    /\ inspections[id].status = "Completed"
    /\ inspections[id].lastReleaseCount = 10

\* C27: once an inspection is stored as Completed, no step changes its status or
\* its quantity.
C27_CompletedAbsorbing ==
  [][\A id \in Ids :
       (inspections[id].exists /\ inspections[id].status = "Completed")
       => /\ inspections'[id].status = "Completed"
          /\ inspections'[id].boxesImpounded = inspections[id].boxesImpounded]_vars

\* C28: no step stores a quantity larger than the one stored before it.
C28_QuantityNeverIncreases ==
  [][\A id \in Ids :
       inspections[id].exists
       => parseNumber(inspections'[id].boxesImpounded) <= Quantity(id)]_vars

\* C29: a commit that is at its update, or past it, has its release record stored;
\* so an inspection has at least as many release records as updates of its quantity.
C29_RecordBeforeDecrement ==
  /\ \A r \in Runs :
       pc[r] \in {"update", "sms"}
       => \E i \in 1..Len(releases[IdOf(r)]) :
            releases[IdOf(r)][i] = ReleasePayload(IdOf(r), releaseCount(r))
  /\ \A id \in Keys : Len(releases[id]) >= Decrements(id)

\* a commit of 6 has its record stored and its update still to come, the inspection
\* at 10
C29_Witness ==
  \E r \in Runs :
    /\ pc[r] = "update" /\ releaseCount(r) = 6
    /\ Len(releases[IdOf(r)]) = 1
    /\ Decrements(IdOf(r)) = 0
    /\ Quantity(IdOf(r)) = 10

\* C30: the gate of an open form is never satisfied with an empty or blank
\* confirmation; and when the mount-time load is not finished, or failed, or found
\* no inspection, or the inspection has no serial number, it is satisfied only with
\* RELEASE typed, in any letter case and with any white space around it.
C30_OnlyReleaseWithoutSerial ==
  \A o \in Ops :
    (mounted[o] /\ canConfirm(o))
    => /\ Trim(confirmText[o]) # <<>>
       /\ (inspLoading[o] \/ ~insp[o].exists \/ insp[o].serialNumber = <<>>)
            => ToUpperCase(Trim(confirmText[o])) = <<"R", "E", "L", "E", "A", "S", "E">>

\* the load of the inspection sn failed and a commit was started with ' Release'
\* typed
C30_Witness ==
  \E r \in Runs :
    /\ pc[r] = "get" /\ attached[r]
    /\ ~inspLoading[owner[r]] /\ ~insp[owner[r]].exists
    /\ inspections[IdOf(r)].serialNumber = <<"s", "n">>
    /\ confirmText[owner[r]] = ReleaseText

====
